---- MODULE Spec2Model ----
(***************************************************************************)
(* Model of the anselusd snapshot: the test-data seeding script            *)
(* utils/psql_testdata.py (schema reset, account generation, transactional *)
(* insertion, operator dump) and the command stub of commands.py.          *)
(*                                                                         *)
(* Text values are sequences of one-character strings.  Random text is     *)
(* drawn over the characters of the real alphabet that matter to SQL       *)
(* quoting (the dollar sign and the single quote) plus one ordinary        *)
(* character; identifiers produced by uuid4 and raw random key bytes are   *)
(* modelled as fresh values.                                               *)
(***************************************************************************)
EXTENDS Integers, Sequences, FiniteSets, TLC

\* ---- bounds of the exploration ----
StrLen == 1          \* length of every generated text value
MaxOldRows == 1      \* rows per table that may pre-exist the script
MaxTokens == 2       \* length of a command line, in tokens
MaxResets == 2       \* calls of reset_database in a row

\* ---- program constants ----
NumAccounts == 5     \* for i in range(0,5)
MinDevices == 1      \* rgen.randrange(1,6)
MaxDevices == 5      \* rgen.randrange(1,6)
FolderKeyIndex == 6  \* account['keys'][5], one-based here

\* ---- alphabets ----
Digits == {"0","1","2","3","4","5","6","7","8","9"}
Lower == {"a","b","c","d","e","f","g","h","i","j","k","l","m",
          "n","o","p","q","r","s","t","u","v","w","x","y","z"}
Upper == {"A","B","C","D","E","F","G","H","I","J","K","L","M",
          "N","O","P","Q","R","S","T","U","V","W","X","Y","Z"}

\* base64.b85encode: 0-9 A-Z a-z and 23 punctuation marks (the grave accent,
\* and for generate_unid also the double quote and the backslash, are left
\* out of the listings: they delimit nothing in the statements built here)
B85Alphabet == Digits \cup Upper \cup Lower \cup
   {"!","#","$","%","&","(",")","*","+","-",";","<","=",">","?","@",
    "^","_","{","|","}","~"}

\* generate_unid: the Basic Latin range 0x21..0x7E; the further ranges are
\* letters and symbols of other scripts and hold no SQL delimiter
UnidAlphabet == Digits \cup Upper \cup Lower \cup
   {"!","#","$","%","&","'","(",")","*","+",",","-",".","/",":",";",
    "<","=",">","?","@","[","]","^","_","{","|","}","~"}

\* str(uuid.uuid4())
UuidAlphabet == Digits \cup {"a","b","c","d","e","f","-"}

\* "<first> <last>/example.com"
AddressAlphabet == Upper \cup Lower \cup {" ", "/", "."}

\* 'active' / 'disabled'
StatusAlphabet == Lower

\* diceware words, capitalised, no delimiter, no specials
PassphraseAlphabet == Upper \cup Lower

\* the characters a drawn text is enumerated over: one ordinary character
\* and, when the field's randomness is explored, the two quoting characters
Plain == {"a"}
Marked == {"a", "$", "'"}

Draw(alphabet, explored) ==
  [1..StrLen -> alphabet \cap (IF explored THEN Marked ELSE Plain)]

\* ---- SQL quoting ----
\* position of the first occurrence of delimiter d in text s, 0 when absent
FirstAt(s, d) ==
  LET hits == {p \in 1..(Len(s) - Len(d) + 1) : SubSeq(s, p, p + Len(d) - 1) = d}
  IN IF hits = {} THEN 0 ELSE CHOOSE p \in hits : \A q \in hits : p <= q

\* a quoted literal q v q ends at the first q after the opening one: the
\* value is stored unchanged iff that is the closing delimiter itself
QuotedOK(q, v) == FirstAt(v \o q, q) = Len(v) + 1

Dollar == <<"$", "$">>
Quote == <<"'">>

\* one interpolated field of a statement: its delimiter and its text
Part(q, v) == [q |-> q, v |-> v]

WellFormed(cmd) == \A p \in 1..Len(cmd) : QuotedOK(cmd[p].q, cmd[p].v)

\* ---- values ----
\* what a value is (its origin), apart from the characters it is written in
Tag(kind, n, role, arg) == [kind |-> kind, n |-> n, role |-> role, arg |-> arg]
Text(of, txt) == [of |-> of, enc |-> "utf8", txt |-> txt]

\* str(uuid.uuid4()): a fresh identifier, one per (account, role)
uuid4(n, role, txt) == Text(Tag("uuid", n, role, ""), txt)

\* base64.b85encode(raw).decode('utf8'): the rendering of raw in characters
b85encode(raw, txt) == [of |-> raw, enc |-> "b85", txt |-> txt]

\* nacl.pwhash.argon2id.kdf(KEY_SIZE, password, salt, ...)
kdf(password, salt) == Tag("argon2id", password.of.n, "pwhash", salt.role)

\* nacl.secret.SecretBox(key).encrypt(plaintext)
encrypt(key, plaintext) == Tag("secretbox", key.n, key.role, plaintext)

FolderNames == <<"Messages", "Contacts", "Calendar", "Tasks", "Files",
                 "Files Attachments", "Social">>
NumFolders == Len(FolderNames)

KeyPurposes == <<"identity", "contact_request", "firstdevice",
                 "broadcast", "system", "folder">>

\* the fields whose random characters are enumerated in a run
Fields == {"attrs", "pwhash", "keyid", "devkey", "enc_name"}
\* variant: rgen.randrange(0,6)
DevCountsFromZero == 0..MaxDevices

\* dev_count = rgen.randrange(1,6)
DevCounts == MinDevices..MaxDevices

VARIABLES
  pc,        \* position of the script / of the function under way
  i,         \* for i in range(0,5): accounts completed so far
  k,         \* index of the statement within the folder or device loop
  db,        \* committed database: table name -> rows, visible to every reader
  sess,      \* the connection: transaction state and its uncommitted snapshot
  test,      \* the account held in memory
  out,       \* accounts dumped to the operator, in order
  cmd,       \* the interpolated fields of the last statement text built
  explore,   \* the fields whose random characters this run enumerates
  resets,    \* completed calls of reset_database
  pTokens,   \* commands.py: the token list handed to handle_command
  result,    \* commands.py: the last return value of handle_command
  printed,   \* commands.py: the last line printed
  gCommandMap \* commands.py: the command table

vars == <<pc, i, k, db, sess, test, out, cmd, explore, resets,
          pTokens, result, printed, gCommandMap>>
dbvars == <<pc, i, k, db, sess, test, out, cmd, explore, resets>>
shellvars == <<pTokens, result, printed, gCommandMap>>

NoAccount == [wid |-> uuid4(0, "none", <<>>)]

\* ---- generate_account ----
key_record(n, purpose, idtxt, plain) ==
  IF purpose \in {"identity", "contact_request", "firstdevice"}
  THEN [type |-> "ed25519", purpose |-> purpose,
        id |-> Text(Tag("unid", n, purpose, ""), idtxt),
        public_key |-> Tag("public", n, purpose, ""),
        private_key |-> Tag("private", n, purpose, ""),
        public_b85 |-> b85encode(Tag("public", n, purpose, ""), plain),
        private_b85 |-> b85encode(Tag("private", n, purpose, ""), plain)]
  ELSE [type |-> "aes256", purpose |-> purpose,
        id |-> Text(Tag("unid", n, purpose, ""), idtxt),
        key |-> Tag("aes256", n, purpose, ""),
        key_b85 |-> b85encode(Tag("aes256", n, purpose, ""), plain)]

device_record(n, d, idtxt, unidtxt, pubtxt, plain) ==
  LET role == "dev" \o ToString(d)
  IN [id |-> uuid4(n, role, idtxt),
      key |-> [type |-> "ed25519", purpose |-> "identity",
               id |-> Text(Tag("unid", n, role, ""), unidtxt),
               public_key |-> Tag("public", n, role, ""),
               private_key |-> Tag("private", n, role, ""),
               public_b85 |-> b85encode(Tag("public", n, role, ""), pubtxt),
               private_b85 |-> b85encode(Tag("private", n, role, ""), plain)]]

\* the account built from the random draws: n is the ordinal of the account,
\* named is the friendly-address coin, st the status coin, hashtxt/keyidtxt/
\* devtxt the characters of the hash, of the folder key-ID and of the device
\* public keys, dev_count the number of devices
make_account(n, named, st, hashtxt, keyidtxt, dev_count, devtxt) ==
  LET plain == CHOOSE t \in Draw(B85Alphabet, FALSE) : TRUE
      uplain == CHOOSE t \in Draw(UnidAlphabet, FALSE) : TRUE
      idtxt == CHOOSE t \in Draw(UuidAlphabet, FALSE) : TRUE
      password == Text(Tag("passphrase", n, "password", ""),
                       CHOOSE t \in Draw(PassphraseAlphabet, FALSE) : TRUE)
      salt == Tag("random", n, "pwsalt", "")
      pwhash == kdf(password, salt)
  IN [wid |-> uuid4(n, "wid", idtxt),
      friendly_address |->
        IF named
        THEN Text(Tag("address", n, "friendly_address", ""),
                  CHOOSE t \in Draw(AddressAlphabet, FALSE) : TRUE)
        ELSE Text(Tag("address", n, "friendly_address", ""), <<>>),
      password |-> password,
      pwsalt |-> salt,
      pwsalt_b85 |-> b85encode(salt, plain),
      pwhash |-> pwhash,
      pwhash_b85 |-> b85encode(pwhash, hashtxt),
      status |-> Text(Tag("status", 0, st, ""),
                      CHOOSE t \in Draw(StatusAlphabet, FALSE) : TRUE),
      keys |-> [j \in 1..Len(KeyPurposes) |->
                  key_record(n, KeyPurposes[j],
                             IF KeyPurposes[j] = "folder" THEN keyidtxt ELSE uplain,
                             plain)],
      folder_map |-> [f \in 1..NumFolders |->
                        [name |-> FolderNames[f],
                         fid |-> uuid4(n, FolderNames[f], idtxt)]],
      devices |-> [d \in 1..dev_count |->
                     device_record(n, d, idtxt, uplain, devtxt[d], plain)]]

generate_account ==
  /\ pc = "generate"
  /\ \E named \in (IF "attrs" \in explore THEN BOOLEAN ELSE {TRUE}),
        st \in (IF "attrs" \in explore THEN {"active", "disabled"} ELSE {"active"}),
        hashtxt \in Draw(B85Alphabet, "pwhash" \in explore),
        keyidtxt \in Draw(UnidAlphabet, "keyid" \in explore),
        dev_count \in DevCounts :
       \E devtxt \in [1..dev_count -> Draw(B85Alphabet, "devkey" \in explore)] :
          test' = make_account(i + 1, named, st, hashtxt, keyidtxt, dev_count, devtxt)
  /\ pc' = "ins_main"
  /\ UNCHANGED <<i, k, db, sess, out, cmd, explore, resets>>
  /\ UNCHANGED shellvars

\* ---- the database and the connection ----
MainTable == "iwkspc_main"
FoldersTable == "iwkspc_folders"
SessionsTable == "iwkspc_sessions"
SchemaTables == {MainTable, FoldersTable, SessionsTable}

NoTables == [t \in {} |-> <<>>]
Idle == [state |-> "idle", work |-> NoTables]

\* what the connection's statements see: psycopg2 opens a transaction at the
\* first execute and keeps it until commit
Work == IF sess.state = "idle" THEN db ELSE sess.work
InTxn(w) == [state |-> "open", work |-> w]

\* variant: the commit is forgotten
commit_lost(committed, w) == committed

\* dbconn.commit(): the snapshot becomes the committed database
commit(committed, w) == w

CreateTable(w, t) == [u \in DOMAIN w \cup {t} |-> IF u = t THEN <<>> ELSE w[u]]
InsertRow(w, t, row) == [w EXCEPT ![t] = Append(@, row)]

\* variant: the rows executed so far stay behind when the script dies
CrashKeepsRows ==
  /\ pc' = "crashed"
  /\ sess' = Idle
  /\ db' = Work

\* an uncaught exception ends the process; closing the connection rolls the
\* open transaction back
Crash ==
  /\ pc' = "crashed"
  /\ sess' = Idle
  /\ UNCHANGED db

\* ---- reset_database ----
\* variant: nothing is dropped
dropcmd_none(w) == w

\* the DO block: DROP TABLE IF EXISTS ... CASCADE for every table of the schema
dropcmd(w) == NoTables

reset_drop ==
  /\ pc = "reset_drop"
  /\ sess' = InTxn(dropcmd(Work))
  /\ pc' = "reset_main"
  /\ UNCHANGED <<i, k, db, test, out, cmd, explore, resets>>
  /\ UNCHANGED shellvars

\* one CREATE TABLE; it raises when the table exists
reset_create(at, t, next) ==
  /\ pc = at
  /\ IF t \in DOMAIN Work
     THEN Crash
     ELSE /\ sess' = InTxn(CreateTable(Work, t))
          /\ pc' = next
          /\ UNCHANGED db
  /\ UNCHANGED <<i, k, test, out, cmd, explore, resets>>
  /\ UNCHANGED shellvars

reset_create_main == reset_create("reset_main", MainTable, "reset_folders")
reset_create_folders == reset_create("reset_folders", FoldersTable, "reset_sessions")
reset_create_sessions == reset_create("reset_sessions", SessionsTable, "reset_commit")

reset_commit ==
  /\ pc = "reset_commit"
  /\ db' = commit(db, Work)
  /\ sess' = Idle
  /\ resets' = resets + 1
  /\ pc' = "reset_returned"
  /\ UNCHANGED <<i, k, test, out, cmd, explore>>
  /\ UNCHANGED shellvars

\* ---- add_account_to_db ----
\* variant: the passphrase itself is written to the password column
main_row_plaintext(account, id) ==
  [id |-> id, wid |-> account.wid, friendly_address |-> account.friendly_address,
   password |-> account.password, status |-> account.status]

main_row(account, id) ==
  [id |-> id, wid |-> account.wid, friendly_address |-> account.friendly_address,
   password |-> account.pwhash_b85, status |-> account.status]

main_cmd(account) ==
  <<Part(Quote, account.wid.txt), Part(Quote, account.friendly_address.txt),
    Part(Dollar, account.pwhash_b85.txt), Part(Quote, account.status.txt)>>

\* variant: the box is built from the system key
box_key_system(account) == account.keys[5].key

\* box = nacl.secret.SecretBox(account['keys'][5]['key'])
box_key(account) == account.keys[FolderKeyIndex].key

\* variant: the folder row carries the folder id in its wid column
folder_row_fid(account, f, enctxt, id) ==
  [id |-> id, fid |-> account.folder_map[f].fid, wid |-> account.folder_map[f].fid,
   enc_name |-> b85encode(encrypt(box_key(account), account.folder_map[f].name), enctxt),
   enc_key |-> account.keys[FolderKeyIndex].id]

folder_row(account, f, enctxt, id) ==
  [id |-> id, fid |-> account.folder_map[f].fid, wid |-> account.wid,
   enc_name |-> b85encode(encrypt(box_key(account), account.folder_map[f].name), enctxt),
   enc_key |-> account.keys[FolderKeyIndex].id]

folder_cmd(account, f, enctxt) ==
  <<Part(Quote, account.wid.txt), Part(Quote, account.folder_map[f].fid.txt),
    Part(Quote, enctxt), Part(Dollar, account.keys[FolderKeyIndex].id.txt)>>

session_row(account, d, id) ==
  [id |-> id, wid |-> account.wid, devid |-> account.devices[d].id,
   device_key |-> account.devices[d].key.public_b85]

session_cmd(account, d) ==
  <<Part(Quote, account.wid.txt), Part(Quote, account.devices[d].id.txt),
    Part(Dollar, account.devices[d].key.public_b85.txt)>>

\* cursor.execute(cmd) of one INSERT: the server rejects a statement whose
\* text does not parse or whose table is missing, and the exception ends
\* the script
execute_insert(t, text, row, next, nextk) ==
  /\ cmd' = text
  /\ IF WellFormed(text) /\ t \in DOMAIN Work
     THEN /\ sess' = InTxn(InsertRow(Work, t, row))
          /\ pc' = next
          /\ k' = nextk
          /\ UNCHANGED db
     ELSE Crash /\ UNCHANGED k
  /\ UNCHANGED <<i, test, out, explore, resets>>
  /\ UNCHANGED shellvars

NextId(t) == IF t \in DOMAIN Work THEN Len(Work[t]) + 1 ELSE 1

\* the position after the folder loop: while i < len(account['devices'])
after_folders(account) == IF 0 < Len(account.devices) THEN "ins_session" ELSE "add_commit"

ins_main ==
  /\ pc = "ins_main"
  /\ execute_insert(MainTable, main_cmd(test),
                    main_row(test, NextId(MainTable)), "ins_folder", 1)

ins_folder ==
  /\ pc = "ins_folder"
  /\ \E enctxt \in Draw(B85Alphabet, "enc_name" \in explore) :
       execute_insert(FoldersTable, folder_cmd(test, k, enctxt),
                      folder_row(test, k, enctxt, NextId(FoldersTable)),
                      IF k < NumFolders THEN "ins_folder" ELSE after_folders(test),
                      IF k < NumFolders THEN k + 1 ELSE 1)

ins_session ==
  /\ pc = "ins_session"
  /\ execute_insert(SessionsTable, session_cmd(test, k),
                    session_row(test, k, NextId(SessionsTable)),
                    IF k < Len(test.devices) THEN "ins_session" ELSE "add_commit",
                    IF k < Len(test.devices) THEN k + 1 ELSE 1)

add_commit ==
  /\ pc = "add_commit"
  /\ db' = commit(db, Work)
  /\ sess' = Idle
  /\ pc' = "dump"
  /\ UNCHANGED <<i, k, test, out, cmd, explore, resets>>
  /\ UNCHANGED shellvars

\* ---- the database fails a round trip (constraint violation, lost link) ----
RoundTrips == {"reset_drop", "reset_main", "reset_folders", "reset_sessions",
               "reset_commit", "ins_main", "ins_folder", "ins_session", "add_commit"}

db_error ==
  /\ pc \in RoundTrips
  /\ Crash
  /\ UNCHANGED <<i, k, test, out, cmd, explore, resets>>
  /\ UNCHANGED shellvars

\* ---- dump_account ----
dump_account ==
  /\ pc = "dump"
  /\ out' = Append(out, test)
  /\ pc' = "loop"
  /\ UNCHANGED <<i, k, db, sess, test, cmd, explore, resets>>
  /\ UNCHANGED shellvars

\* ---- the script: reset_database(conn); for i in range(0,5): ... ----
for_loop ==
  /\ pc \in {"reset_returned", "loop"}
  /\ i' = IF pc = "loop" THEN i + 1 ELSE i
  /\ pc' = IF i' < NumAccounts THEN "generate" ELSE "done"
  /\ UNCHANGED <<k, db, sess, test, out, cmd, explore, resets>>
  /\ UNCHANGED shellvars

\* a table found in the schema before the script runs
OldRows(n) == [r \in 1..n |-> [id |-> r, legacy |-> TRUE]]
InitialDbs ==
  UNION {[tabs -> {OldRows(n) : n \in 0..MaxOldRows}] :
           tabs \in SUBSET (SchemaTables \cup {"other"})}

EmptySchema == [t \in SchemaTables |-> <<>>]

ShellIdle ==
  /\ pTokens = <<>>
  /\ result = TRUE
  /\ printed = <<>>
  /\ gCommandMap = <<>>

Init ==
  /\ pc = "reset_drop"
  /\ i = 0
  /\ k = 1
  /\ db \in InitialDbs
  /\ sess = Idle
  /\ test = NoAccount
  /\ out = <<>>
  /\ cmd = <<>>
  /\ explore = {}
  /\ resets = 0
  /\ ShellIdle

Next ==
  \/ reset_drop
  \/ reset_create_main
  \/ reset_create_folders
  \/ reset_create_sessions
  \/ reset_commit
  \/ for_loop
  \/ generate_account
  \/ ins_main
  \/ ins_folder
  \/ ins_session
  \/ add_commit
  \/ dump_account
  \/ db_error

Spec == Init /\ [][Next]_vars

\* ---- one account: generate_account, add_account_to_db, dump_account ----
\* on a freshly reset schema, enumerating the random characters of one field
InitAccount ==
  /\ pc = "generate"
  /\ i = 0
  /\ k = 1
  /\ db = EmptySchema
  /\ sess = Idle
  /\ test = NoAccount
  /\ out = <<>>
  /\ cmd = <<>>
  /\ explore \in {{f} : f \in Fields}
  /\ resets = 1
  /\ ShellIdle

NextAccount ==
  \/ generate_account
  \/ ins_main
  \/ ins_folder
  \/ ins_session
  \/ add_commit
  \/ dump_account
  \/ db_error

SpecAccount == InitAccount /\ [][NextAccount]_vars

\* ---- reset_database called repeatedly on any database ----
reset_again ==
  /\ pc = "reset_returned"
  /\ resets < MaxResets
  /\ pc' = "reset_drop"
  /\ UNCHANGED <<i, k, db, sess, test, out, cmd, explore, resets>>
  /\ UNCHANGED shellvars

NextReset ==
  \/ reset_drop
  \/ reset_create_main
  \/ reset_create_folders
  \/ reset_create_sessions
  \/ reset_commit
  \/ reset_again
  \/ db_error

SpecReset == Init /\ [][NextReset]_vars

\* ---- commands.py ----
Vocabulary == {"quit", "QUIT", "Quit", "quits", "help", "HELP", ""}

\* variant: the verb is compared as typed
casefold_none(token) == token

\* str.casefold() on the vocabulary
casefold(token) ==
  CASE token \in {"QUIT", "Quit"} -> "quit"
    [] token = "HELP" -> "help"
    [] OTHER -> token

TokenLists == UNION {[1..n -> Vocabulary] : n \in 0..MaxTokens}

RECURSIVE join(_)
\* ' '.join(pTokens)
join(tokens) ==
  IF tokens = <<>> THEN ""
  ELSE IF Len(tokens) = 1 THEN tokens[1]
  ELSE tokens[1] \o " " \o join(Tail(tokens))

\* the return value of handle_command
handle_result(tokens) ==
  IF tokens = <<>> THEN TRUE
  ELSE IF casefold(tokens[1]) = "quit" THEN FALSE
  ELSE TRUE

handle_command ==
  /\ pc = "cmd_call"
  /\ result' = handle_result(pTokens)
  /\ printed' = IF pTokens /= <<>> /\ handle_result(pTokens)
                THEN <<join(pTokens)>> ELSE <<>>
  /\ pc' = "cmd_returned"
  /\ UNCHANGED <<pTokens, gCommandMap>>
  /\ UNCHANGED <<i, k, db, sess, test, out, cmd, explore, resets>>

\* the caller hands over the next token list
next_command ==
  /\ pc = "cmd_returned"
  /\ pTokens' \in TokenLists
  /\ pc' = "cmd_call"
  /\ UNCHANGED <<result, printed, gCommandMap>>
  /\ UNCHANGED <<i, k, db, sess, test, out, cmd, explore, resets>>

InitShell ==
  /\ pc = "cmd_call"
  /\ i = 0
  /\ k = 1
  /\ db = NoTables
  /\ sess = Idle
  /\ test = NoAccount
  /\ out = <<>>
  /\ cmd = <<>>
  /\ explore = {}
  /\ resets = 0
  /\ pTokens \in TokenLists
  /\ result = TRUE
  /\ printed = <<>>
  /\ gCommandMap = <<>>

NextShell ==
  \/ handle_command
  \/ next_command

SpecShell == InitShell /\ [][NextShell]_vars

\* ==== properties ====
TableRows(d, t) == IF t \in DOMAIN d THEN {d[t][p] : p \in 1..Len(d[t])} ELSE {}
AccountRows(d, t, a) == {r \in TableRows(d, t) : "wid" \in DOMAIN r /\ r.wid = a.wid}
Dumped == {out[j] : j \in 1..Len(out)}
Generated == Dumped \cup (IF "devices" \in DOMAIN test THEN {test} ELSE {})
Persisted == {a \in Generated : AccountRows(db, MainTable, a) /= {}}
DataColumns(r) == DOMAIN r \ {"id"}

NoRows(a) ==
  /\ AccountRows(db, MainTable, a) = {}
  /\ AccountRows(db, FoldersTable, a) = {}
  /\ AccountRows(db, SessionsTable, a) = {}

AllRows(a) ==
  /\ Cardinality(AccountRows(db, MainTable, a)) = 1
  /\ Cardinality(AccountRows(db, FoldersTable, a)) = 7
  /\ Cardinality(AccountRows(db, SessionsTable, a)) = Len(a.devices)

\* C1: in every state each generated account has either none or all of its
\* rows (one main row, seven folder rows, one session row per device) in the
\* committed database; after a failed attempt the account has none, after
\* the commit it has all.
C1_AccountAtomic ==
  resets >= 1 =>
    /\ \A a \in Generated : NoRows(a) \/ AllRows(a)
    /\ (pc = "crashed" /\ "devices" \in DOMAIN test) => NoRows(test)
    /\ pc \in {"dump", "loop"} => AllRows(test)

\* a session insert had been built for the second account or later, then the
\* attempt failed
C1_Witness ==
  /\ pc = "crashed"
  /\ i >= 1
  /\ Len(cmd) = 3
  /\ Cardinality(TableRows(db, MainTable)) = i

\* C2: after the reset and n persisted accounts the workspace table holds n
\* rows, the folders table 7*n, the sessions table between n and 5*n, and
\* every wid of a folder or session row matches exactly one workspace row.
C2_RowCounts ==
  (resets >= 1 /\ pc \in {"generate", "done"}) =>
    /\ Len(db[MainTable]) = i
    /\ Len(db[FoldersTable]) = 7 * i
    /\ Len(db[SessionsTable]) \in i..(5 * i)
    /\ \A r \in TableRows(db, FoldersTable) \cup TableRows(db, SessionsTable) :
         Cardinality({m \in TableRows(db, MainTable) : m.wid = r.wid}) = 1

C2_Witness ==
  /\ pc = "done"
  /\ i = 5
  /\ Len(db[SessionsTable]) > 5

\* C3: every committed workspace row carries the password salt of its
\* account next to the password hash.
C3_SaltPersisted ==
  resets >= 1 =>
    \A a \in Persisted : \A r \in AccountRows(db, MainTable, a) :
       \E c \in DataColumns(r) : r[c] = a.pwsalt_b85

\* C4: no column of any row, committed or not, holds the passphrase of a
\* generated account; the password column holds the base-85 rendering of the
\* KDF hash of that account.
C4_NoPlaintext ==
  resets >= 1 =>
    /\ \A d \in {db, Work} : \A t \in DOMAIN d : \A r \in TableRows(d, t) :
         \A c \in DataColumns(r) : \A a \in Generated : r[c] /= a.password
    /\ \A a \in Generated : \A r \in AccountRows(Work, MainTable, a) :
         /\ r.password.enc = "b85"
         /\ r.password.of = kdf(a.password, a.pwsalt)

C4_Witness ==
  /\ pc = "ins_folder"
  /\ i = 1
  /\ AccountRows(Work, MainTable, test) /= {}
  /\ AccountRows(db, MainTable, out[1]) /= {}

\* C5: the schema is reset once and before any insert; accounts are handled
\* one at a time: a statement for an account is executed only when all earlier
\* accounts are committed and dumped, uncommitted rows belong to the account
\* in memory only, and an account is dumped only after its rows are committed.
C5_OneAtATime ==
  /\ resets <= 1
  /\ pc \in {"generate", "ins_main", "ins_folder", "ins_session", "add_commit",
             "dump", "loop", "done"} => resets = 1
  /\ resets = 1 =>
       /\ Len(out) = (IF pc = "loop" THEN i + 1 ELSE i)
       /\ \A a \in Dumped : AllRows(a)
       /\ Cardinality(TableRows(db, MainTable)) =
            (IF pc \in {"dump", "loop"} THEN i + 1 ELSE i)
       /\ pc \in {"generate", "ins_main"} => sess.state = "idle"
       /\ sess.state = "open" =>
            \A t \in DOMAIN Work : \A r \in TableRows(Work, t) \ TableRows(db, t) :
               r.wid = test.wid

\* the third account is being written while two are committed and dumped
C5_Witness ==
  /\ pc = "ins_session"
  /\ i = 2
  /\ Len(out) = 2
  /\ sess.state = "open"

\* C6: a completed reset leaves exactly the three empty tables, whatever the
\* database held; a repeated reset finds no table in its way; the committed
\* database changes only at the commit of a reset, so an interrupted reset
\* leaves the old tables as they were.
C6_ResetState ==
  /\ pc = "reset_returned" => db = EmptySchema
  /\ pc = "reset_main" => MainTable \notin DOMAIN Work
  /\ pc = "reset_folders" => FoldersTable \notin DOMAIN Work
  /\ pc = "reset_sessions" => SessionsTable \notin DOMAIN Work

C6_ResetIdempotent ==
  /\ []C6_ResetState
  /\ [][/\ db' /= db => (pc = "reset_commit" /\ pc' = "reset_returned")
        /\ (resets >= 1 /\ resets' > resets) => db' = db]_vars

C6_Witness ==
  /\ pc = "reset_returned"
  /\ resets = 2

\* C7: every folder row, committed or not, holds a name encrypted under the
\* key of the account's key record of purpose 'folder', and its enc_key is
\* the id of that key record.
FolderKey(a) == a.keys[CHOOSE j \in 1..Len(a.keys) : a.keys[j].purpose = "folder"]

C8_Devices ==
  \A a \in Generated :
    /\ Len(a.devices) \in 1..5
    /\ AccountRows(db, MainTable, a) /= {} =>
         /\ Cardinality(AccountRows(db, SessionsTable, a)) = Len(a.devices)
         /\ \A d \in 1..Len(a.devices) :
              Cardinality({r \in AccountRows(db, SessionsTable, a) :
                             r.devid = a.devices[d].id}) = 1

C8_Witness ==
  /\ pc = "loop"
  /\ Len(test.devices) = 5
  /\ Cardinality(AccountRows(db, SessionsTable, test)) = 5

\* C9: every INSERT text built by add_account_to_db is well-formed: no
\* interpolated value closes its own quoting early.
C9_StatementsWellFormed == WellFormed(cmd)

\* C10: handle_command returns False exactly when the first token is a
\* spelling of 'quit', and changes neither the token list nor gCommandMap.
QuitSpellings == {"quit", "QUIT", "Quit"}

C10_QuitOnly ==
  /\ [](pc = "cmd_returned" =>
          (result = FALSE <=> (pTokens /= <<>> /\ pTokens[1] \in QuitSpellings)))
  /\ [][pc = "cmd_call" => (pTokens' = pTokens /\ gCommandMap' = gCommandMap)]_vars

C10_Witness ==
  /\ pc = "cmd_returned"
  /\ result = FALSE
  /\ pTokens = <<"QUIT", "help">>

====
